---- MODULE Spec2Model ----
\* A model of examples/mutex.rs: a blocking mutex built from a spin lock, an
\* intrusive circular wait list of parked threads and std::thread park/unpark.
\* Every shared-memory access of Mutex::lock and MutexGuard::drop is one step.
EXTENDS Integers, Naturals, Sequences, FiniteSets, TLC

\* ---------------------------------------------------------------- bounds
\* main(): thread_count worker threads (20 in the source), each making Rounds
\* lock/increment/unlock rounds (two loops of `workload`, 2_000_000 in all).
thread_count == 3
Rounds == 2

\* ---------------------------------------------------------------- names
Threads == 1..thread_count
\* The wait list's sentinel is the ListHead embedded in the Mutex (node 0);
\* the WaitEntry of thread t lives in t's stack frame of lock() (node t).
Sentinel == 0
NoThread == 0
Nodes == {Sentinel} \cup Threads
\* main(): Mutex::new(0)
initial == 0

VARIABLES
    inner,       \* SpinLock.inner : AtomicBool
    sguard,      \* sguard[t]: thread t owns a live SpinLockGuard
    locked,      \* Mutex.locked : Cell<bool>
    data,        \* Mutex.data : UnsafeCell<usize>
    next,        \* ListHead.next of every node
    prev,        \* ListHead.prev of every node
    thread,      \* WaitEntry.thread of node n (NoThread: no live entry)
    token,       \* the park token of each thread (std::thread::park/unpark)
    pc,          \* each thread's position in main's closure / lock / drop
    guard,       \* guard[t]: thread t owns a live MutexGuard
    tmp,         \* the value read through deref_mut for `+= 1`
    todo,        \* lock() calls thread t still has to make
    path,        \* history: which branch of lock() the current call took
    notified,    \* history: the unpark calls issued by t's current guard drop
    stolen       \* history: the head waiter a fast-path lock() has overtaken

vars == <<inner, sguard, locked, data, next, prev, thread, token, pc, guard,
          tmp, todo, path, notified, stolen>>

\* ---------------------------------------------------------------- spin lock
\* Fault variant: a plain store(true) in place of the compare_exchange.
acquire_blind(t) ==
    /\ inner' = TRUE
    /\ sguard' = [sguard EXCEPT ![t] = TRUE]

\* SpinLock::acquire: the compare_exchange(false, true) succeeds only on a
\* clear flag; a failed attempt changes nothing and is retried (a stutter).
acquire(t) ==
    /\ inner = FALSE
    /\ inner' = TRUE
    /\ sguard' = [sguard EXCEPT ![t] = TRUE]

\* Fault variant: the guard goes away without the store(false).
SpinLockGuard_drop_forgotten(t) ==
    /\ inner' = inner
    /\ sguard' = [sguard EXCEPT ![t] = FALSE]

\* SpinLockGuard::drop: store(false), whoever set the flag.
SpinLockGuard_drop(t) ==
    /\ inner' = FALSE
    /\ sguard' = [sguard EXCEPT ![t] = FALSE]

\* ---------------------------------------------------------------- wait list
\* A list state is a record of the two link fields of all nodes.
List == [next |-> next, prev |-> prev]

\* ListHead::new: a self-linked node.
ListHead_new == [next |-> [n \in Nodes |-> n], prev |-> [n \in Nodes |-> n]]

\* ListHead::insert_prev(list): link `this` immediately before `list`.
insert_prev(l, list, this) ==
    LET last == l.prev[list] IN
    [next |-> [l.next EXCEPT ![this] = list, ![last] = this],
     prev |-> [l.prev EXCEPT ![this] = last, ![list] = this]]

\* Fault variant: the removed node's prev link is left as it was.
unlink_half(l, this) ==
    LET nx == l.next[this]
        pv == l.prev[this]
    IN [next |-> [[l.next EXCEPT ![pv] = nx] EXCEPT ![this] = this],
        prev |-> [l.prev EXCEPT ![nx] = pv]]

\* ListHead's drop: re-link the two neighbours to each other, then self-link.
unlink(l, this) ==
    LET nx == l.next[this]
        pv == l.prev[this]
        relinked == [next |-> [l.next EXCEPT ![pv] = nx],
                     prev |-> [l.prev EXCEPT ![nx] = pv]]
    IN [next |-> [relinked.next EXCEPT ![this] = this],
        prev |-> [relinked.prev EXCEPT ![this] = this]]

\* ListHead::next: the node after `list`, or none when that is `list` itself.
ListHead_next(l, list) == IF l.next[list] = list THEN {} ELSE {l.next[list]}

\* The nodes met by following next from the sentinel, in order, at most
\* `fuel` of them.
RECURSIVE Walk(_, _, _)
Walk(l, n, fuel) ==
    IF n = Sentinel \/ fuel = 0 THEN <<>>
    ELSE <<n>> \o Walk(l, l.next[n], fuel - 1)

Waiters(l) == Walk(l, l.next[Sentinel], thread_count + 1)
Linked(l) == {Waiters(l)[i] : i \in 1..Len(Waiters(l))}

\* ---------------------------------------------------------------- park/unpark
\* Fault variant: the notification is dropped.
unpark_lost(tok, t) == tok

\* Thread::unpark: make the token available.
unpark(tok, t) == [tok EXCEPT ![t] = TRUE]

\* ---------------------------------------------------------------- Mutex::new
\* main(): Arc::pin_init(Mutex::new(0)) and thread_count spawned workers, each
\* about to make its first lock() call.
Init ==
    /\ inner = FALSE
    /\ sguard = [t \in Threads |-> FALSE]
    /\ locked = FALSE
    /\ data = initial
    /\ next = ListHead_new.next
    /\ prev = ListHead_new.prev
    /\ thread = [n \in Nodes |-> NoThread]
    /\ token = [t \in Threads |-> FALSE]
    /\ pc = [t \in Threads |-> "l_acquire"]
    /\ guard = [t \in Threads |-> FALSE]
    /\ tmp = [t \in Threads |-> 0]
    /\ todo = [t \in Threads |-> Rounds]
    /\ path = [t \in Threads |-> "none"]
    /\ notified = [t \in Threads |-> <<>>]
    /\ stolen = NoThread

goto(t, label) == pc' = [pc EXCEPT ![t] = label]

\* ---------------------------------------------------------------- Mutex::lock
\* line 72: let mut sguard = self.spin_lock.acquire();
Lock_acquire(t) ==
    /\ pc[t] = "l_acquire"
    /\ acquire(t)
    /\ goto(t, "l_test")
    /\ UNCHANGED <<locked, data, next, prev, thread, token, guard, tmp, todo,
                   path, notified>>

\* Fault variant: the flag is not consulted, every call takes the fast path.
Lock_test_blind(t) ==
    /\ pc[t] = "l_test"
    /\ goto(t, "l_set")
    /\ path' = [path EXCEPT ![t] = IF locked THEN "slow" ELSE "fast"]
    /\ UNCHANGED <<inner, sguard, locked, data, next, prev, thread, token,
                   guard, tmp, todo, notified>>

\* Fault variant: a call that finds the mutex free still queues up behind
\* the threads already waiting.
Lock_test_queueing(t) ==
    /\ pc[t] = "l_test"
    /\ IF locked \/ next[Sentinel] # Sentinel
       THEN goto(t, "l_insert")
       ELSE goto(t, "l_set")
    /\ path' = [path EXCEPT ![t] = IF locked THEN "slow" ELSE "fast"]
    /\ UNCHANGED <<inner, sguard, locked, data, next, prev, thread, token,
                   guard, tmp, todo, notified>>

\* Fault variant: a recursive mutex, the owner of the guard passes the test.
Lock_test_owner(t) ==
    /\ pc[t] = "l_test"
    /\ IF locked /\ ~guard[t]
       THEN goto(t, "l_insert") /\ path' = [path EXCEPT ![t] = "slow"]
       ELSE goto(t, "l_set") /\ path' = [path EXCEPT ![t] = "fast"]
    /\ UNCHANGED <<inner, sguard, locked, data, next, prev, thread, token,
                   guard, tmp, todo, notified>>

\* line 73: if self.locked.get()
Lock_test(t) ==
    /\ pc[t] = "l_test"
    /\ IF locked
       THEN goto(t, "l_insert") /\ path' = [path EXCEPT ![t] = "slow"]
       ELSE goto(t, "l_set") /\ path' = [path EXCEPT ![t] = "fast"]
    /\ UNCHANGED <<inner, sguard, locked, data, next, prev, thread, token,
                   guard, tmp, todo, notified>>

\* Fault variant: the entry is linked before the current head (insert at the
\* front of the list).
Lock_insert_front(t) ==
    /\ pc[t] = "l_insert"
    /\ LET l == insert_prev(List, next[Sentinel], t) IN
         /\ next' = l.next
         /\ prev' = l.prev
    /\ thread' = [thread EXCEPT ![t] = t]
    /\ goto(t, "l_while")
    /\ UNCHANGED <<inner, sguard, locked, data, token, guard, tmp, todo, path,
                   notified>>

\* lines 74-78 and 137-142: WaitEntry::insert_new(&self.wait_list), with
\* thread: current() and wait_list: ListHead::insert_prev(list).
Lock_insert(t) ==
    /\ pc[t] = "l_insert"
    /\ LET l == insert_prev(List, Sentinel, t) IN
         /\ next' = l.next
         /\ prev' = l.prev
    /\ thread' = [thread EXCEPT ![t] = t]
    /\ goto(t, "l_while")
    /\ UNCHANGED <<inner, sguard, locked, data, token, guard, tmp, todo, path,
                   notified>>

\* Fault variant: a return of park() is taken to mean the mutex is free.
Lock_while_trusting(t) ==
    /\ pc[t] \in {"l_while", "l_recheck"}
    /\ IF locked /\ pc[t] = "l_while"
       THEN goto(t, "l_release")
       ELSE goto(t, "l_unlink")
    /\ UNCHANGED <<inner, sguard, locked, data, next, prev, thread, token,
                   guard, tmp, todo, path, notified>>

\* line 79: while self.locked.get(), evaluated first on entering the loop
\* ("l_while") and again after every park ("l_recheck").
Lock_while(t) ==
    /\ pc[t] \in {"l_while", "l_recheck"}
    /\ IF locked THEN goto(t, "l_release") ELSE goto(t, "l_unlink")
    /\ UNCHANGED <<inner, sguard, locked, data, next, prev, thread, token,
                   guard, tmp, todo, path, notified>>

\* Fault variant: a thread that parks again moves its entry to the tail.
Lock_release_requeue(t) ==
    /\ pc[t] = "l_release"
    /\ SpinLockGuard_drop(t)
    /\ LET l == insert_prev(unlink(List, t), Sentinel, t) IN
         /\ next' = l.next
         /\ prev' = l.prev
    /\ goto(t, "l_park")
    /\ UNCHANGED <<locked, data, thread, token, guard, tmp, todo, path,
                   notified>>

\* Fault variant: the thread parks with the spin lock still held.
Lock_release_keep(t) ==
    /\ pc[t] = "l_release"
    /\ goto(t, "l_park")
    /\ UNCHANGED <<inner, sguard, locked, data, next, prev, thread, token,
                   guard, tmp, todo, path, notified>>

\* line 80: drop(sguard);
Lock_release(t) ==
    /\ pc[t] = "l_release"
    /\ SpinLockGuard_drop(t)
    /\ goto(t, "l_park")
    /\ UNCHANGED <<locked, data, next, prev, thread, token, guard, tmp, todo,
                   path, notified>>

\* line 81: park() returns by consuming the thread's token ...
Lock_park(t) ==
    /\ pc[t] = "l_park"
    /\ token[t]
    /\ token' = [token EXCEPT ![t] = FALSE]
    /\ goto(t, "l_reacquire")
    /\ UNCHANGED <<inner, sguard, locked, data, next, prev, thread, guard, tmp,
                   todo, path, notified>>

\* ... or spuriously, with no token.
Lock_park_spurious(t) ==
    /\ pc[t] = "l_park"
    /\ ~token[t]
    /\ goto(t, "l_reacquire")
    /\ UNCHANGED <<inner, sguard, locked, data, next, prev, thread, token,
                   guard, tmp, todo, path, notified>>

\* Fault variant: the spin lock is not taken again after park().
Lock_reacquire_skip(t) ==
    /\ pc[t] = "l_reacquire"
    /\ goto(t, "l_recheck")
    /\ UNCHANGED <<inner, sguard, locked, data, next, prev, thread, token,
                   guard, tmp, todo, path, notified>>

\* line 82: sguard = self.spin_lock.acquire();
Lock_reacquire(t) ==
    /\ pc[t] = "l_reacquire"
    /\ acquire(t)
    /\ goto(t, "l_recheck")
    /\ UNCHANGED <<locked, data, next, prev, thread, token, guard, tmp, todo,
                   path, notified>>

\* Fault variant: the wait entry is forgotten, not dropped (never unlinked).
Lock_unlink_leak(t) ==
    /\ pc[t] = "l_unlink"
    /\ goto(t, "l_set")
    /\ UNCHANGED <<inner, sguard, locked, data, next, prev, thread, token,
                   guard, tmp, todo, path, notified>>

\* lines 84-85: the wait entry is destroyed at the end of the `if` block; its
\* ListHead unlinks itself.
Lock_unlink(t) ==
    /\ pc[t] = "l_unlink"
    /\ LET l == unlink(List, t) IN
         /\ next' = l.next
         /\ prev' = l.prev
    /\ thread' = [thread EXCEPT ![t] = NoThread]
    /\ goto(t, "l_set")
    /\ UNCHANGED <<inner, sguard, locked, data, token, guard, tmp, todo, path,
                   notified>>

\* lines 86-87: self.locked.set(true); MutexGuard { mtx: self }
Lock_set(t) ==
    /\ pc[t] = "l_set"
    /\ locked' = TRUE
    /\ guard' = [guard EXCEPT ![t] = TRUE]
    /\ goto(t, "l_return")
    /\ UNCHANGED <<inner, sguard, data, next, prev, thread, token, tmp, todo,
                   path, notified>>

\* line 88: lock() returns the guard; sguard goes out of scope.
Lock_return(t) ==
    /\ pc[t] = "l_return"
    /\ SpinLockGuard_drop(t)
    /\ path' = [path EXCEPT ![t] = "none"]
    /\ goto(t, "c_read")
    /\ UNCHANGED <<locked, data, next, prev, thread, token, guard, tmp, todo,
                   notified>>

\* ---------------------------------------------------------------- *guard += 1
\* lines 157/162 through deref_mut (lines 120-125): read the counter ...
Incr_read(t) ==
    /\ pc[t] = "c_read"
    /\ tmp' = [tmp EXCEPT ![t] = data]
    /\ goto(t, "c_write")
    /\ UNCHANGED <<inner, sguard, locked, data, next, prev, thread, token,
                   guard, todo, path, notified>>

\* ... and write it back incremented; the guard temporary is then dropped.
Incr_write(t) ==
    /\ pc[t] = "c_write"
    /\ data' = tmp[t] + 1
    /\ tmp' = [tmp EXCEPT ![t] = 0]
    /\ goto(t, "d_acquire")
    /\ UNCHANGED <<inner, sguard, locked, next, prev, thread, token, guard,
                   todo, path, notified>>

\* ---------------------------------------------------------------- MutexGuard::drop
\* line 101: let sguard = self.mtx.spin_lock.acquire();
Drop_acquire(t) ==
    /\ pc[t] = "d_acquire"
    /\ acquire(t)
    /\ goto(t, "d_clear")
    /\ UNCHANGED <<locked, data, next, prev, thread, token, guard, tmp, todo,
                   path, notified>>

\* Fault variant: the flag is left set.
Drop_clear_skip(t) ==
    /\ pc[t] = "d_clear"
    /\ goto(t, "d_notify")
    /\ UNCHANGED <<inner, sguard, locked, data, next, prev, thread, token,
                   guard, tmp, todo, path, notified>>

\* Fault variant: a hand-off, the flag stays set while entries are linked.
Drop_clear_handoff(t) ==
    /\ pc[t] = "d_clear"
    /\ locked' = (next[Sentinel] # Sentinel)
    /\ goto(t, "d_notify")
    /\ UNCHANGED <<inner, sguard, data, next, prev, thread, token, guard, tmp,
                   todo, path, notified>>

\* line 102: self.mtx.locked.set(false);
Drop_clear(t) ==
    /\ pc[t] = "d_clear"
    /\ locked' = FALSE
    /\ goto(t, "d_notify")
    /\ UNCHANGED <<inner, sguard, data, next, prev, thread, token, guard, tmp,
                   todo, path, notified>>

\* Fault variant: nobody is notified.
Drop_targets_none(l, th) == {}

\* Fault variant: the entry before the sentinel (the tail) is notified.
Drop_targets_tail(l, th) ==
    IF l.prev[Sentinel] = Sentinel THEN {} ELSE {{th[l.prev[Sentinel]]}}

\* lines 103-106: the threads `(*wait_entry).thread.unpark()` may address: the
\* thread recorded in the head entry; reading an entry that is no longer alive
\* is undefined and may yield any thread.
Drop_targets(l, th) ==
    {IF th[h] # NoThread THEN {th[h]} ELSE Threads : h \in ListHead_next(l, Sentinel)}

\* Fault variant: the notified head entry is unlinked by the notifier.
Drop_notify_dequeue(t) ==
    /\ pc[t] = "d_notify"
    /\ IF next[Sentinel] = Sentinel
       THEN UNCHANGED <<token, notified, next, prev>>
       ELSE /\ token' = unpark(token, next[Sentinel])
            /\ notified' = [notified EXCEPT ![t] = Append(@, next[Sentinel])]
            /\ LET l == unlink(List, next[Sentinel]) IN
                 /\ next' = l.next
                 /\ prev' = l.prev
    /\ goto(t, "d_release")
    /\ UNCHANGED <<inner, sguard, locked, data, thread, guard, tmp, todo, path>>

\* Fault variant: the notified head entry is moved to the tail.
Drop_notify_rotate(t) ==
    /\ pc[t] = "d_notify"
    /\ IF next[Sentinel] = Sentinel
       THEN UNCHANGED <<token, notified, next, prev>>
       ELSE /\ token' = unpark(token, next[Sentinel])
            /\ notified' = [notified EXCEPT ![t] = Append(@, next[Sentinel])]
            /\ LET l == insert_prev(unlink(List, next[Sentinel]), Sentinel,
                                    next[Sentinel]) IN
                 /\ next' = l.next
                 /\ prev' = l.prev
    /\ goto(t, "d_release")
    /\ UNCHANGED <<inner, sguard, locked, data, thread, guard, tmp, todo, path>>

Drop_notify(t) ==
    /\ pc[t] = "d_notify"
    /\ IF Drop_targets(List, thread) = {}
       THEN UNCHANGED <<token, notified>>
       ELSE \E targets \in Drop_targets(List, thread) : \E w \in targets :
              /\ token' = unpark(token, w)
              /\ notified' = [notified EXCEPT ![t] = Append(@, w)]
    /\ goto(t, "d_release")
    /\ UNCHANGED <<inner, sguard, locked, data, next, prev, thread, guard, tmp,
                   todo, path>>

\* lines 107-108: drop(sguard); the guard is gone.
Drop_release(t) ==
    /\ pc[t] = "d_release"
    /\ SpinLockGuard_drop(t)
    /\ guard' = [guard EXCEPT ![t] = FALSE]
    /\ notified' = [notified EXCEPT ![t] = <<>>]
    /\ UNCHANGED <<locked, data, next, prev, thread, token, tmp, path>>

\* ---------------------------------------------------------------- workers
\* main()'s worker, lines 155-165: Rounds times `*mtx.lock() += 1;`, the
\* statement's guard being dropped at its end.
Worker_round(t) ==
    /\ Drop_release(t)
    /\ todo' = [todo EXCEPT ![t] = @ - 1]
    /\ IF todo[t] > 1 THEN goto(t, "l_acquire") ELSE goto(t, "done")

\* The same worker with its round counter and the counter's value left out:
\* with 2_000_000 rounds to make, another round always follows.
Worker_hold(t) ==
    /\ pc[t] = "c_read"
    /\ goto(t, "d_acquire")
    /\ UNCHANGED <<inner, sguard, locked, data, next, prev, thread, token,
                   guard, tmp, todo, path, notified>>

Worker_again(t) ==
    /\ Drop_release(t)
    /\ goto(t, "l_acquire")
    /\ UNCHANGED todo

\* A worker that calls lock() again while the guard of its first call is
\* still alive: let a = mtx.lock(); let b = mtx.lock();
Worker_relock(t) ==
    /\ pc[t] = "c_read"
    /\ goto(t, "l_acquire")
    /\ UNCHANGED <<inner, sguard, locked, data, next, prev, thread, token,
                   guard, tmp, todo, path, notified>>

\* ---------------------------------------------------------------- system
MutexStep(t) ==
    \/ Lock_acquire(t)
    \/ Lock_test(t)
    \/ Lock_insert(t)
    \/ Lock_while(t)
    \/ Lock_release(t)
    \/ Lock_park(t)
    \/ Lock_reacquire(t)
    \/ Lock_unlink(t)
    \/ Lock_set(t)
    \/ Lock_return(t)
    \/ Drop_acquire(t)
    \/ Drop_clear(t)
    \/ Drop_notify(t)

\* Workers that lock and unlock again and again.
LoopStep(t) ==
    \/ MutexStep(t)
    \/ Lock_park_spurious(t)
    \/ Worker_hold(t)
    \/ Worker_again(t)

Next == (\E t \in Threads : LoopStep(t)) /\ UNCHANGED stolen

Spec == Init /\ [][Next]_vars

\* main(): every worker makes Rounds increments and finishes.
MainStep(t) ==
    /\ \/ MutexStep(t)
       \/ Incr_read(t)
       \/ Incr_write(t)
       \/ Worker_round(t)
    /\ UNCHANGED stolen

NextMain ==
    \E t \in Threads :
        MainStep(t) \/ (Lock_park_spurious(t) /\ UNCHANGED stolen)

SpecMain == Init /\ [][NextMain]_vars

\* Every worker calls lock() once. Threads are scheduled fairly: a thread that
\* can take a step takes one, a park() whose token is set returns (a spurious
\* return is possible, not promised), and a thread spinning in
\* SpinLock::acquire gets the spin lock if it is free again and again.
SpinStep(t) ==
    /\ Lock_acquire(t) \/ Lock_reacquire(t) \/ Drop_acquire(t)
    /\ UNCHANGED stolen

InitOnce ==
    /\ inner = FALSE
    /\ sguard = [t \in Threads |-> FALSE]
    /\ locked = FALSE
    /\ data = initial
    /\ next = ListHead_new.next
    /\ prev = ListHead_new.prev
    /\ thread = [n \in Nodes |-> NoThread]
    /\ token = [t \in Threads |-> FALSE]
    /\ pc = [t \in Threads |-> "l_acquire"]
    /\ guard = [t \in Threads |-> FALSE]
    /\ tmp = [t \in Threads |-> 0]
    /\ todo = [t \in Threads |-> 1]
    /\ path = [t \in Threads |-> "none"]
    /\ notified = [t \in Threads |-> <<>>]
    /\ stolen = NoThread

SpecOnce ==
    /\ InitOnce
    /\ [][NextMain]_vars
    /\ \A t \in Threads : WF_vars(MainStep(t)) /\ SF_vars(SpinStep(t))

\* The looping workers again, with a record of overtaking: when a lock() call
\* that found the flag clear sets it while entries are linked, the head
\* entry's thread is recorded until it has parked again or left the loop.
Overtaken(t) ==
    IF pc[t] = "l_set" /\ path[t] = "fast" /\ next[Sentinel] # Sentinel
    THEN next[Sentinel]
    ELSE IF t = stolen /\ pc[t] \in {"l_release", "l_unlink"}
    THEN NoThread
    ELSE stolen

NextSteal == \E t \in Threads : LoopStep(t) /\ stolen' = Overtaken(t)

SpecSteal == Init /\ [][NextSteal]_vars

\* The looping workers, any of which may call lock() while holding the guard.
NextReentrant ==
    /\ \E t \in Threads : LoopStep(t) \/ Worker_relock(t)
    /\ UNCHANGED stolen

SpecReentrant == Init /\ [][NextReentrant]_vars

\* The looping workers under an adversarial scheduler. One thread, the victim,
\* wins the spin lock inside lock() only at moments when the flag is set; the
\* others win it after park() only at moments when the flag is clear. Every
\* thread's steps are scheduled fairly within these limits.
Victim == CHOOSE t \in Threads : TRUE

Adversary(t) ==
    IF t = Victim
    THEN pc[t] \in {"l_acquire", "l_reacquire"} => locked
    ELSE pc[t] = "l_reacquire" => ~locked

StarveRun(t) ==
    /\ Adversary(t)
    /\ MutexStep(t) \/ Worker_hold(t) \/ Worker_again(t)
    /\ stolen' = Overtaken(t)

StarveSpurious(t) == Lock_park_spurious(t) /\ stolen' = Overtaken(t)

StarveSpin(t) ==
    /\ Adversary(t)
    /\ Lock_acquire(t) \/ Lock_reacquire(t) \/ Drop_acquire(t)
    /\ stolen' = Overtaken(t)

NextStarve == \E t \in Threads : StarveRun(t) \/ StarveSpurious(t)

SpecStarve ==
    /\ Init
    /\ [][NextStarve]_vars
    /\ \A t \in Threads : WF_vars(StarveRun(t)) /\ SF_vars(StarveSpin(t))

TypeOK ==
    /\ inner \in BOOLEAN /\ locked \in BOOLEAN
    /\ sguard \in [Threads -> BOOLEAN] /\ guard \in [Threads -> BOOLEAN]
    /\ token \in [Threads -> BOOLEAN]
    /\ next \in [Nodes -> Nodes] /\ prev \in [Nodes -> Nodes]
    /\ thread \in [Nodes -> Threads \cup {NoThread}]
    /\ todo \in [Threads -> 0..Rounds]
    /\ data \in Nat
    /\ stolen \in Threads \cup {NoThread}

\* ---------------------------------------------------------------- properties
Holders == {t \in Threads : guard[t]}

\* The positions between a lock() return and the end of the guard's drop.
Returned(t) ==
    pc[t] \in {"c_read", "c_write", "d_acquire", "d_clear", "d_notify", "d_release"}

\* C1. Mutual exclusion: no two threads own a MutexGuard at the same time, and
\* no two threads are between a lock() return and the end of the matching
\* guard drop at the same time, whatever park() and newly arriving threads do.
MutualExclusion ==
    \A t, u \in Threads :
        t # u => ~(guard[t] /\ guard[u]) /\ ~(Returned(t) /\ Returned(u))

\* A thread holds the guard while another one, back from park(), re-checks
\* the flag.
MutualExclusionWitness ==
    \E t, u \in Threads :
        t # u /\ pc[t] = "c_read" /\ guard[t] /\ pc[u] = "l_recheck" /\ locked

\* C2. Progress: with every worker calling lock() once and dropping its guard,
\* under fair scheduling every lock() call returns.
Progress == \A t \in Threads : (pc[t] = "l_acquire") ~> (pc[t] = "c_read")

\* A call that had to wait returns.
ProgressWitness == \E t \in Threads : pc[t] = "l_return" /\ path[t] = "slow"

\* C3. Value integrity: when all thread_count workers have made their Rounds
\* increments, the counter is its initial value plus thread_count * Rounds.
ValueIntegrity ==
    (\A t \in Threads : pc[t] = "done") => data = initial + thread_count * Rounds

\* All workers are done.
ValueIntegrityWitness == \A t \in Threads : pc[t] = "done" /\ todo[t] = 0

\* No guard drop has notified anybody yet: a park() that returned did so
\* spuriously.
NoUnparkYet ==
    \A u \in Threads : todo[u] = Rounds /\ pc[u] # "d_release" /\ ~token[u]

\* C4. Spurious-wake tolerance: a thread that re-checks the flag after park()
\* and finds it set takes no guard and parks again; a thread is past the wait
\* loop only while it holds the spin lock under which it saw the flag clear,
\* and it sets the flag and takes the guard in that same critical section.
SpuriousWakeTolerance ==
    /\ [](\A t \in Threads :
            pc[t] \in {"l_unlink", "l_set"} => sguard[t] /\ inner /\ ~locked)
    /\ [][\A t \in Threads :
            /\ (pc[t] = "l_recheck" /\ pc'[t] # pc[t]) =>
                 IF locked
                 THEN pc'[t] = "l_release" /\ ~guard'[t] /\ locked'
                 ELSE pc'[t] = "l_unlink" /\ sguard[t] /\ sguard'[t]
            /\ (pc[t] = "l_release" /\ pc'[t] # pc[t]) =>
                 pc'[t] = "l_park" /\ ~guard'[t]
            /\ (~guard[t] /\ guard'[t]) =>
                 ~locked /\ locked' /\ sguard[t] /\ sguard'[t]]_vars

\* A thread woken spuriously holds the spin lock again and finds the flag set.
SpuriousWakeWitness ==
    \E t \in Threads : pc[t] = "l_recheck" /\ locked /\ NoUnparkYet

\* C5. Fast path: a lock() call that finds the flag clear goes on to set it
\* and return the guard without linking an entry or parking, and until it
\* has returned no link of the wait list changes.
FastPath ==
    /\ [](\A t \in Threads :
            path[t] = "fast" =>
                /\ pc[t] \in {"l_set", "l_return"}
                /\ thread[t] = NoThread /\ t \notin Linked(List)
                /\ (pc[t] = "l_return" => locked /\ guard[t]))
    /\ [][\A t \in Threads :
            /\ (pc[t] = "l_test" /\ ~locked /\ pc'[t] # pc[t]) =>
                 path'[t] = "fast" /\ pc'[t] = "l_set"
            /\ ((pc[t] = "l_test" /\ ~locked) \/ path[t] = "fast") =>
                 next' = next /\ prev' = prev /\ thread' = thread
            /\ (path[t] = "fast" /\ pc'[t] # pc[t]) =>
                 pc'[t] = IF pc[t] = "l_set" THEN "l_return" ELSE "c_read"]_vars

\* A fast-path call is about to return while another thread's entry is linked.
FastPathWitness ==
    \E t \in Threads :
        path[t] = "fast" /\ pc[t] = "l_return" /\ next[Sentinel] # Sentinel

\* C6, as stated. The locked flag is set exactly when some thread owns a
\* MutexGuard, in every state.
LockedIffGuard == locked <=> (Holders # {})

\* C6, amended. Whenever no thread holds the spin lock, the locked flag is set
\* exactly when some thread owns a MutexGuard.
LockedIffGuardOutsideSpin == ~inner => (locked <=> (Holders # {}))

\* The spin lock is free, a thread owns the guard and another one waits.
LockedIffGuardWitness ==
    \E t \in Threads :
        ~inner /\ locked /\ pc[t] = "d_acquire" /\ guard[t] /\ next[Sentinel] # Sentinel

\* C7. A guard drop issues at most one unpark: none when the wait list is
\* empty, else one, to the thread of the entry right after the sentinel; and
\* no park token is set by anything but that unpark.
OneUnparkPerDrop ==
    /\ [](\A t \in Threads :
            notified[t] =
                IF pc[t] = "d_release" /\ next[Sentinel] # Sentinel
                THEN <<next[Sentinel]>>
                ELSE <<>>)
    /\ [](\A n \in Linked(List) : thread[n] = n)
    /\ [][\A u \in Threads :
            (~token[u] /\ token'[u]) =>
                \E t \in Threads :
                    /\ pc[t] = "d_notify" /\ pc'[t] = "d_release"
                    /\ next[Sentinel] = u
                    /\ \A v \in Threads \ {u} : token'[v] = token[v]]_vars

\* A drop has notified the head while a second thread waits behind it.
OneUnparkPerDropWitness ==
    \E t \in Threads :
        /\ pc[t] = "d_release" /\ Len(notified[t]) = 1
        /\ Len(Waiters(List)) >= 2
        /\ token[next[Sentinel]] /\ ~token[prev[Sentinel]]

\* A list is a valid circular doubly linked list: following next from the
\* sentinel comes back to the sentinel, and the neighbours of every node on
\* the way agree in both directions.
ValidList(l) ==
    LET w == Waiters(l)
        last == IF w = <<>> THEN Sentinel ELSE w[Len(w)]
    IN /\ Len(w) <= thread_count
       /\ l.next[last] = Sentinel
       /\ \A n \in {Sentinel} \cup Linked(l) :
            l.prev[l.next[n]] = n /\ l.next[l.prev[n]] = n

\* C8. List invariant: the wait list is a valid circular doubly linked list
\* after every insertion and every removal; a node outside it is self-linked.
ListInvariant ==
    /\ ValidList(List)
    /\ \A n \in Threads \ Linked(List) : next[n] = n /\ prev[n] = n

\* An entry has just been unlinked and another one is still linked.
ListInvariantWitness ==
    \E t \in Threads :
        pc[t] = "l_set" /\ path[t] = "slow" /\ next[Sentinel] # Sentinel

\* C9. unlink links the node's two neighbours to each other and self-links
\* the node, and unlinking the node once more changes nothing.
UnlinkIdempotent ==
    \A n \in Threads :
        LET once == unlink(List, n) IN
            /\ once.next[n] = n /\ once.prev[n] = n
            /\ (n \in Linked(List) =>
                  /\ once.next[prev[n]] = next[n]
                  /\ once.prev[next[n]] = prev[n])
            /\ ValidList(once)
            /\ Linked(once) = Linked(List) \ {n}
            /\ unlink(once, n) = once

\* A thread is about to unlink its entry from a list of two entries.
UnlinkIdempotentWitness ==
    \E t \in Threads :
        pc[t] = "l_unlink" /\ t \in Linked(List) /\ Len(Waiters(List)) >= 2

\* The positions at which a thread is about to read or write the locked flag
\* or to read or change the wait list.
Accessing(t) ==
    pc[t] \in {"l_test", "l_insert", "l_while", "l_recheck", "l_unlink",
               "l_set", "d_clear", "d_notify"}

\* C10. Every access to the locked flag and to the wait list is made by a
\* thread holding the spin lock, and a thread whose entry is linked while it
\* does not hold the spin lock is inside the wait loop: the entry is unlinked
\* before the spin lock of the final re-check is released.
SpinLockDiscipline ==
    /\ \A t \in Threads : Accessing(t) => sguard[t] /\ inner
    /\ \A t \in Threads :
         (t \in Linked(List) /\ ~sguard[t]) => pc[t] \in {"l_park", "l_reacquire"}

\* A thread past its final re-check unlinks its entry under the spin lock.
SpinLockDisciplineWitness ==
    \E t \in Threads :
        pc[t] = "l_unlink" /\ sguard[t] /\ inner /\ t \in Linked(List)

\* The threads that own a SpinLockGuard.
SpinHolders == {t \in Threads : sguard[t]}

\* The positions at which a thread spins in SpinLock::acquire.
Spinning(t) == pc[t] \in {"l_acquire", "l_reacquire", "d_acquire"}

\* C11. The spin lock is mutually exclusive: at most one thread owns a
\* SpinLockGuard, the flag is set exactly while one exists, and a guard comes
\* into being only in a step that changes the flag from false to true.
SpinLockExclusive ==
    /\ [](Cardinality(SpinHolders) <= 1 /\ (inner <=> SpinHolders # {}))
    /\ [][\A t \in Threads :
            (~sguard[t] /\ sguard'[t]) => Spinning(t) /\ ~inner /\ inner']_vars

\* A thread owns the spin lock while another one spins for it.
SpinLockExclusiveWitness ==
    \E t, u \in Threads : t # u /\ sguard[t] /\ inner /\ Spinning(u)

\* The positions of a thread that is parked, about to spin, or outside lock()
\* and MutexGuard::drop.
OutsideSpin(t) ==
    pc[t] \in {"l_acquire", "l_park", "l_reacquire", "c_read", "c_write",
               "d_acquire", "done"}

\* C12. A thread that is parked, or that has left lock() or the guard's drop,
\* does not hold the spin lock; the wait loop gives it up before park() and
\* has it again at the re-check.
NoSpinLockWhileParked ==
    /\ \A t \in Threads : OutsideSpin(t) => ~sguard[t]
    /\ \A t \in Threads : pc[t] = "l_recheck" => sguard[t] /\ inner
    /\ (\A t \in Threads : OutsideSpin(t)) => ~inner

\* A thread is parked while another one works under the spin lock.
NoSpinLockWhileParkedWitness ==
    \E t, u \in Threads :
        t # u /\ pc[t] = "l_park" /\ ~sguard[t] /\ sguard[u] /\ pc[u] = "d_clear"

\* The threads inside a contention episode: they found the flag set at line
\* 73 or 79 and have not seen it clear since.
Contending(t) ==
    pc[t] \in {"l_insert", "l_while", "l_recheck", "l_release", "l_park",
               "l_reacquire"}

NoDuplicates(w) == \A i, j \in 1..Len(w) : w[i] = w[j] => i = j

\* C13. Whenever the spin lock is free the linked entries are those of the
\* contending threads, one entry each; an entry leaves the list only by its
\* own thread's unlink after that thread saw the flag clear, and a thread
\* outside lock()'s wait loop has no entry linked.
WaitListMembership ==
    /\ [](~inner => Linked(List) = {t \in Threads : Contending(t)})
    /\ [](NoDuplicates(Waiters(List)) /\ \A n \in Linked(List) : thread[n] = n)
    /\ [](\A t \in Threads :
            (Returned(t) \/ pc[t] \in {"l_acquire", "l_return", "done"}) =>
                t \notin Linked(List))
    /\ [][\A t \in Threads :
            (t \in Linked(List) /\ t \notin Linked([next |-> next', prev |-> prev'])) =>
                pc[t] = "l_unlink" /\ pc'[t] = "l_set" /\ ~locked]_vars

\* A waiter back from park() finds the flag set; its entry and another
\* waiter's are linked.
WaitListMembershipWitness ==
    \E t \in Threads :
        /\ pc[t] = "l_recheck" /\ locked /\ t \in Linked(List)
        /\ Len(Waiters(List)) = 2

\* The positions of MutexGuard::drop.
Dropping(t) == pc[t] \in {"d_acquire", "d_clear", "d_notify", "d_release"}

\* C14. No step of MutexGuard::drop changes a link of the wait list or an
\* entry's thread; the links change only in a step of the entry's own thread
\* in lock().
DropKeepsWaitList ==
    [][(\A t \in Threads :
          (Dropping(t) /\ pc'[t] # pc[t]) =>
              /\ next' = next /\ prev' = prev /\ thread' = thread
              /\ (pc[t] = "d_clear" => ~locked'))
       /\ ((next' # next \/ prev' # prev) =>
             \E t \in Threads :
                /\ pc[t] \in {"l_insert", "l_unlink"} /\ pc'[t] # pc[t]
                /\ Linked([next |-> next', prev |-> prev']) \in
                     {Linked(List) \cup {t}, Linked(List) \ {t}})]_vars

\* A drop has notified the head, whose entry is still the head.
DropKeepsWaitListWitness ==
    \E t \in Threads :
        /\ pc[t] = "d_release" /\ notified[t] # <<>>
        /\ next[Sentinel] = notified[t][1] /\ token[next[Sentinel]]

\* The sequence w without the element n.
Without(w, n) == SelectSeq(w, LAMBDA x : x # n)

\* C15. Entries are appended at the tail: an insertion puts the new entry
\* last in the order from the sentinel forward, the unlinking of an entry
\* leaves the others in order, and no other step changes the order; so the
\* entries are in the order of registration and the head registered first.
TailAppend ==
    [][LET w == Waiters(List)
           w2 == Waiters([next |-> next', prev |-> prev'])
       IN IF \E t \in Threads : pc[t] = "l_insert" /\ pc'[t] # pc[t]
          THEN \E t \in Threads :
                  /\ pc[t] = "l_insert" /\ t \notin Linked(List)
                  /\ w2 = Append(w, t) /\ prev'[Sentinel] = t
          ELSE IF \E t \in Threads : pc[t] = "l_unlink" /\ pc'[t] # pc[t]
          THEN \E t \in Threads : pc[t] = "l_unlink" /\ w2 = Without(w, t)
          ELSE w2 = w]_vars

\* A thread has just registered behind one that registered before it.
TailAppendWitness ==
    \E t \in Threads :
        /\ pc[t] = "l_while" /\ Len(Waiters(List)) = 2
        /\ Waiters(List)[2] = t

\* C18. No stranded waiter: whenever the spin lock is free, the flag clear
\* and the wait list not empty, the head entry's thread is not parked or has
\* its park token set; and the threads are never all parked without a token.
NoStrandedWaiter ==
    /\ ((~inner /\ ~locked /\ next[Sentinel] # Sentinel) =>
          (pc[next[Sentinel]] # "l_park" \/ token[next[Sentinel]]))
    /\ ~(\A t \in Threads : pc[t] = "l_park" /\ ~token[t])

\* The mutex is free again and the parked head has its token.
NoStrandedWaiterWitness ==
    /\ ~inner /\ ~locked /\ next[Sentinel] # Sentinel
    /\ pc[next[Sentinel]] = "l_park" /\ token[next[Sentinel]]
    /\ \E u \in Threads : pc[u] = "l_park" /\ ~token[u]

Reentered(t) ==
    /\ guard[t]
    /\ pc[t] \in {"l_acquire", "l_test", "l_insert", "l_while", "l_recheck",
                  "l_release", "l_park", "l_reacquire"}

\* C19. No reentrancy: a thread that calls lock() while it still holds the
\* guard never returns from that call. It stays in the call with locked set,
\* its test of the flag sends it to link a wait entry, which stays linked, and
\* every re-check after park() sends it back to park().
NoReentrancy ==
    /\ [](\A t \in Threads : Reentered(t) =>
            /\ locked
            /\ (pc[t] \in {"l_while", "l_recheck", "l_release", "l_park",
                           "l_reacquire"} => t \in Linked(List)))
    /\ [][\A t \in Threads : Reentered(t) =>
            /\ Reentered(t)'
            /\ (pc[t] = "l_test" /\ pc'[t] # pc[t]) => pc'[t] = "l_insert"
            /\ (pc[t] = "l_recheck" /\ pc'[t] # pc[t]) => pc'[t] = "l_release"
         ]_vars

\* The guard's owner has resumed from park() inside its second lock() call and
\* is about to test the flag again.
NoReentrancyWitness ==
    \E t \in Threads :
        guard[t] /\ pc[t] = "l_recheck" /\ locked /\ t \in Linked(List)

\* A step of thread t in the program, and an acquisition of the spin lock by
\* t, whatever happens to the record of overtaking.
RunStep(t) ==
    /\ MutexStep(t) \/ Worker_hold(t) \/ Worker_again(t)
    /\ stolen' \in Threads \cup {NoThread}

RunSpin(t) ==
    /\ Lock_acquire(t) \/ Lock_reacquire(t) \/ Drop_acquire(t)
    /\ stolen' \in Threads \cup {NoThread}

FairlyScheduled ==
    \A t \in Threads : WF_vars(RunStep(t)) /\ SF_vars(RunSpin(t))

\* C17. Not starvation-free, not strictly FIFO: the adversarial schedule is a
\* fair schedule of the program in which the victim never obtains the guard.
\* Its entry becomes the head of the wait list and stays there, again and
\* again it resumes from park() and finds the flag set once more, and again
\* and again another thread, which registered later or not at all, obtains
\* the guard past the victim's entry.
Starvation ==
    /\ FairlyScheduled
    /\ [](~guard[Victim])
    /\ <>[](next[Sentinel] = Victim)
    /\ []<>(pc[Victim] = "l_recheck" /\ locked)
    /\ []<>(\E u \in Threads \ {Victim} :
               pc[u] = "l_return" /\ guard[u] /\ next[Sentinel] = Victim)

\* The victim, unparked by a guard drop, re-checks the flag after a fast-path
\* lock() of another thread has set it again.
StarvationWitness ==
    /\ stolen = Victim /\ pc[Victim] = "l_recheck" /\ locked
    /\ \E u \in Threads : u # Victim /\ guard[u]

====
